---- MODULE Spec2Model ----
(***************************************************************************)
(* Model of the fab process generator: the process planner                 *)
(* (generateFlow, mapLayersToSteps, calculateDuration, analyzeLayout), the *)
(* two renderers (formatText, formatMarkdown), the mock layout provider    *)
(* (parseGDS) and the 'generate' command of the CLI.                       *)
(*                                                                         *)
(* JavaScript values are modelled as follows.                              *)
(*   - a string is a TLA+ string; a number is an integer;                  *)
(*   - an object is a record (a function on its own property names); a     *)
(*     property that is absent, or whose value is undefined, is not in the *)
(*     record's DOMAIN;                                                    *)
(*   - a value that may be of several kinds (a result or an exception, a   *)
(*     number or NaN) is a record tagged by a field "kind";                *)
(*   - durations are kept exactly, in minutes (1/60 hour) before rounding  *)
(*     and in tenths of an hour after it.                                  *)
(***************************************************************************)
EXTENDS Integers, Sequences, FiniteSets, TLC

VARIABLES recipes, layout, call, ret, outputFile, pc, exitStatus

vars == <<recipes, layout, call, ret, outputFile, pc, exitStatus>>

(***************************************************************************)
(* Bounds of the model.                                                    *)
(***************************************************************************)
MaxRecipeSteps == 2
MaxLayers == 2
MaxAnalyzeLayers == 3
MaxDurationSteps == 2
MaxFlowSteps == 2

(***************************************************************************)
(* JavaScript helpers.                                                     *)
(***************************************************************************)
Range(s) == {s[i] : i \in DOMAIN s}

\* obj.key = val on an object: the property is added or overwritten.
Put(obj, key, val) ==
  [k \in DOMAIN obj \cup {key} |-> IF k = key THEN val ELSE obj[k]]

\* Truthiness of an optional string property: absent (undefined) and "" are falsy.
TruthyStr(obj, key) == key \in DOMAIN obj /\ obj[key] # ""

\* Truthiness of an optional number property: absent (undefined) and 0 are falsy.
TruthyNum(obj, key) == key \in DOMAIN obj /\ obj[key] # 0

\* The property names every plain object inherits from Object.prototype.
ObjectPrototypeNames ==
  {"constructor", "toString", "toLocaleString", "valueOf", "hasOwnProperty",
   "isPrototypeOf", "propertyIsEnumerable", "__defineGetter__",
   "__defineSetter__", "__lookupGetter__", "__lookupSetter__", "__proto__"}

\* String.prototype.toUpperCase on one character.
UpperChar(c) ==
  CASE c = "a" -> "A" [] c = "b" -> "B" [] c = "c" -> "C" [] c = "d" -> "D"
    [] c = "e" -> "E" [] c = "f" -> "F" [] c = "g" -> "G" [] c = "h" -> "H"
    [] c = "i" -> "I" [] c = "j" -> "J" [] c = "k" -> "K" [] c = "l" -> "L"
    [] c = "m" -> "M" [] c = "n" -> "N" [] c = "o" -> "O" [] c = "p" -> "P"
    [] c = "q" -> "Q" [] c = "r" -> "R" [] c = "s" -> "S" [] c = "t" -> "T"
    [] c = "u" -> "U" [] c = "v" -> "V" [] c = "w" -> "W" [] c = "x" -> "X"
    [] c = "y" -> "Y" [] c = "z" -> "Z" [] OTHER -> c

RECURSIVE toUpperCase(_)
toUpperCase(s) ==
  IF s = "" THEN ""
  ELSE UpperChar(SubSeq(s, 1, 1)) \o toUpperCase(SubSeq(s, 2, Len(s)))

\* String.prototype.includes: sub occurs in s as a contiguous substring.
includes(s, sub) ==
  \E i \in 1..(Len(s) - Len(sub) + 1) : SubSeq(s, i, i + Len(sub) - 1) = sub

\* Whether string s starts with prefix p.
StartsWith(s, p) == Len(s) >= Len(p) /\ SubSeq(s, 1, Len(p)) = p

(***************************************************************************)
(* The layout provider: parseGDS returns this fixture for every existing   *)
(* path.                                                                   *)
(***************************************************************************)
BoundingBox == [min_x |-> 0, min_y |-> 0, max_x |-> 1000, max_y |-> 1000]

parseGDS(gdsFilePath, exists) ==
  IF ~exists
  THEN [kind |-> "error",
        error |-> [type |-> "Error",
                   message |-> "GDS file not found: " \o gdsFilePath]]
  ELSE [kind |-> "layout",
        layout |->
          [filename |-> gdsFilePath,
           layers |->
             << [number |-> 1, name |-> "ACTIVE", datatype |-> 0, feature_count |-> 150],
                [number |-> 2, name |-> "POLY", datatype |-> 0, feature_count |-> 200],
                [number |-> 3, name |-> "CONTACT", datatype |-> 0, feature_count |-> 300],
                [number |-> 4, name |-> "METAL1", datatype |-> 0, feature_count |-> 180],
                [number |-> 5, name |-> "VIA1", datatype |-> 0, feature_count |-> 120] >>,
           feature_count |-> 950,
           bounding_box |-> BoundingBox]]

(***************************************************************************)
(* Property lookup on the plain objects the planner uses as tables.        *)
(***************************************************************************)

\* layerMap = {} (line 47): no own property, prototype Object.prototype.
EmptyLayerMap == [own |-> << >>, proto |-> [kind |-> "ObjectPrototype"]]

\* layerMap[layer.name] = layer (line 51). Assigning an object to "__proto__"
\* replaces the map's prototype instead of creating an own property.
LayerMapSet(map, layer) ==
  IF layer.name = "__proto__"
  THEN [map EXCEPT !.proto = [kind |-> "layer", layer |-> layer]]
  ELSE [map EXCEPT !.own = Put(map.own, layer.name, layer)]

\* The map after layout.layers.forEach (lines 50-52) has run over layers[1..n].
RECURSIVE BuildLayerMap(_, _)
BuildLayerMap(layers, n) ==
  IF n = 0 THEN EmptyLayerMap
  ELSE LayerMapSet(BuildLayerMap(layers, n - 1), layers[n])

\* layerMap[key] (lines 59-61): an own property, else the prototype chain.
LayerMapGet(map, key) ==
  IF key = "__proto__" THEN
    (IF map.proto.kind = "layer"
     THEN [kind |-> "layer", layer |-> map.proto.layer]
     ELSE [kind |-> "builtin"])
  ELSE IF key \in DOMAIN map.own THEN [kind |-> "layer", layer |-> map.own[key]]
  ELSE IF map.proto.kind = "layer" /\ key \in DOMAIN map.proto.layer THEN
    [kind |-> "primitive",
     truthy |-> IF key = "name" THEN map.proto.layer.name # ""
                ELSE map.proto.layer[key] # 0]
  ELSE IF key \in ObjectPrototypeNames THEN [kind |-> "builtin"]
  ELSE [kind |-> "undefined"]

\* Truthiness of a looked-up value: objects and functions are truthy.
Truthy(v) ==
  CASE v.kind = "undefined" -> FALSE
    [] v.kind = "primitive" -> v.truthy
    [] OTHER -> TRUE

\* recipes[processType] (lines 17, 21) on the table parsed from the recipe file.
RecipesGet(table, processType) ==
  IF processType \in DOMAIN table
  THEN [kind |-> "recipe", recipe |-> table[processType]]
  ELSE IF processType \in ObjectPrototypeNames THEN [kind |-> "builtin"]
  ELSE [kind |-> "undefined"]

(***************************************************************************)
(* The process planner.                                                    *)
(***************************************************************************)

\* const mappedStep = { ...step } (line 56): a fresh object holding step's own
\* properties, so that the writes of lines 60-67 do not reach the template.
\* "shared" tells whether the result is the template object itself, as it
\* would be had line 56 read const mappedStep = step (SpreadStepShared).
SpreadStepShared(step) == [obj |-> step, shared |-> TRUE]

SpreadStep(step) == [obj |-> step, shared |-> FALSE]

\* One iteration of recipe.steps.forEach (lines 55-71): the mapped step pushed
\* onto steps, and the template object as the iteration leaves it.
MapStep(layerMap, step) ==
  LET copy == SpreadStep(step)
      found == LayerMapGet(layerMap, step.layer)
      mapped ==
        IF TruthyStr(step, "layer") /\ Truthy(found) THEN
          \* layerMap[step.layer].number and .feature_count are undefined
          \* unless the value found is a layer object.
          LET numbered == IF found.kind = "layer"
                          THEN Put(copy.obj, "layout_layer", found.layer.number)
                          ELSE copy.obj
              counted == IF found.kind = "layer"
                         THEN Put(numbered, "feature_count", found.layer.feature_count)
                         ELSE numbered
          IN Put(counted, "status", "matched")
        ELSE IF TruthyStr(step, "layer") THEN
          Put(Put(copy.obj, "status", "layer_missing"), "warning",
              "Layer " \o step.layer \o " not found in layout")
        ELSE Put(copy.obj, "status", "layer_independent")
  IN [mapped |-> mapped, template |-> IF copy.shared THEN mapped ELSE step]

\* mapLayersToSteps as it would be if steps whose layer is missing were not
\* pushed onto the result.
mapLayersToStepsSkipMissing(lay, recipe) ==
  LET layerMap == BuildLayerMap(lay.layers, Len(lay.layers))
      each == [i \in 1..Len(recipe.steps) |-> MapStep(layerMap, recipe.steps[i])]
      NotMissing(m) == m.status # "layer_missing"
  IN [steps |-> SelectSeq([i \in 1..Len(recipe.steps) |-> each[i].mapped], NotMissing),
      recipeSteps |-> [i \in 1..Len(recipe.steps) |-> each[i].template]]

\* mapLayersToSteps (lines 45-74): the steps array returned, and recipe.steps
\* as the call leaves it.
mapLayersToSteps(lay, recipe) ==
  LET layerMap == BuildLayerMap(lay.layers, Len(lay.layers))
      each == [i \in 1..Len(recipe.steps) |-> MapStep(layerMap, recipe.steps[i])]
  IN [steps |-> [i \in 1..Len(recipe.steps) |-> each[i].mapped],
      recipeSteps |-> [i \in 1..Len(recipe.steps) |-> each[i].template]]

\* The defaultDurations table (lines 87-97), in minutes.
defaultDurations ==
  [lithography |-> 120, etch |-> 60, deposition |-> 180, implantation |-> 120,
   thermal_oxidation |-> 180, cmp |-> 90, metallization |-> 120, strip |-> 30,
   wet_etch |-> 30]

\* defaultDurations[step.operation] || 1 (line 99): an own entry of the table,
\* else whatever the prototype chain holds under that name (a function or
\* Object.prototype, both truthy), else the fallback of 1 hour.
DefaultDuration(operation) ==
  IF operation \in DOMAIN defaultDurations
  THEN [kind |-> "number", min |-> defaultDurations[operation]]
  ELSE IF operation \in ObjectPrototypeNames THEN [kind |-> "object"]
  ELSE [kind |-> "number", min |-> 60]

\* One iteration of steps.forEach (lines 82-101) on the running total. The
\* total is a number of minutes until a non-number is added to it: += then
\* concatenates and the total is a string from there on.
AddDuration(total, step) ==
  IF total.kind = "string" THEN total
  ELSE IF TruthyNum(step, "duration_min")
  THEN [kind |-> "number", min |-> total.min + step.duration_min]
  ELSE LET d == DefaultDuration(step.operation)
       IN IF d.kind = "number"
          THEN [kind |-> "number", min |-> total.min + d.min]
          ELSE [kind |-> "string"]

RECURSIVE TotalDuration(_, _)
TotalDuration(steps, n) ==
  IF n = 0 THEN [kind |-> "number", min |-> 0]
  ELSE AddDuration(TotalDuration(steps, n - 1), steps[n])

\* Math.round(totalHours * 10) / 10 (line 103), in tenths of an hour:
\* totalHours * 10 is min / 6, and Math.round rounds a half up. The code adds
\* IEEE doubles, whose sum can fall just below a half the exact sum reaches
\* (1 and 80 minutes give 1.3, not 1.4); on every sequence of durations the
\* specifications below draw, the doubles and the exact sum round alike.
RoundTenths(min) == (min + 3) \div 6

\* calculateDuration (lines 79-104). A string total that is no numeral
\* multiplies to NaN.
calculateDuration(steps) ==
  LET total == TotalDuration(steps, Len(steps))
  IN IF total.kind = "number"
     THEN [kind |-> "number", tenths |-> RoundTenths(total.min)]
     ELSE [kind |-> "NaN"]

\* recipe.technology_node || 'N/A' and recipe.application || 'General'.
OrDefault(obj, key, dflt) == IF TruthyStr(obj, key) THEN obj[key] ELSE dflt

\* generateFlow (lines 16-40): what the call returns or throws, and the recipe
\* table as the call leaves it.
generateFlow(lay, table, processType) ==
  LET got == RecipesGet(table, processType)
  IN IF ~Truthy(got) THEN
       [ret |-> [kind |-> "error",
                 error |-> [type |-> "Error",
                            message |-> "Unknown process type: " \o processType]],
        recipes |-> table]
     ELSE IF got.kind # "recipe" THEN
       \* recipe.steps is undefined: recipe.steps.forEach throws (line 55).
       [ret |-> [kind |-> "error",
                 error |-> [type |-> "TypeError",
                            message |-> "Cannot read properties of undefined (reading 'forEach')"]],
        recipes |-> table]
     ELSE
       LET recipe == got.recipe
           m == mapLayersToSteps(lay, recipe)
           totalDuration == calculateDuration(m.steps)
       IN [ret |-> [kind |-> "flow",
                    flow |-> [name |-> recipe.name,
                              process_type |-> processType,
                              technology_node |-> OrDefault(recipe, "technology_node", "N/A"),
                              application |-> OrDefault(recipe, "application", "General"),
                              layout_file |-> lay.filename,
                              layers_used |-> Len(lay.layers),
                              steps |-> m.steps,
                              total_steps |-> Len(m.steps),
                              estimated_duration_hours |-> totalDuration]],
           recipes |-> [table EXCEPT ![processType] =
                          [recipe EXCEPT !.steps = m.recipeSteps]]]

\* The least t in lo..hi with (2t + 1)^2 > q, found by bisection.
RECURSIVE LeastTenths(_, _, _)
LeastTenths(lo, hi, q) ==
  IF lo >= hi THEN lo
  ELSE LET mid == (lo + hi) \div 2
       IN IF (2 * mid + 1) * (2 * mid + 1) > q
          THEN LeastTenths(lo, mid, q)
          ELSE LeastTenths(mid + 1, hi, q)

\* estimateMinFeatureSize (lines 158-164), in tenths: Math.round(Math.sqrt(
\* area / feature_count) * 10) is the least t with 10 * sqrt(area / fc) < t + 1/2,
\* that is (2t + 1)^2 * fc > 400 * area, that is (2t + 1)^2 > (400 * area) \div fc;
\* it is at most 5 * (max_x + max_y) + 1. A feature_count of 0 divides to
\* Infinity (area > 0) or NaN (area = 0).
estimateMinFeatureSize(lay) ==
  LET area == lay.bounding_box.max_x * lay.bounding_box.max_y
      fc == lay.feature_count
  IN IF fc = 0
     THEN [kind |-> IF area = 0 THEN "NaN" ELSE "Infinity"]
     ELSE [kind |-> "number",
           tenths |-> LeastTenths(0, 5 * (lay.bounding_box.max_x + lay.bounding_box.max_y) + 1,
                                  (400 * area) \div fc)]

\* The array layout.layers.map(l => l.name.toUpperCase()) (line 110).
UpperNames(lay) == [i \in 1..Len(lay.layers) |-> toUpperCase(lay.layers[i].name)]

\* analyzeLayout as it would be if the photonics rule were tested before the
\* MEMS rule.
analyzeLayoutPhotonicsFirst(lay) ==
  LET layerNames == UpperNames(lay)
      featureCount == lay.feature_count
      some(kw) == \E i \in 1..Len(layerNames) : includes(layerNames[i], kw)
      has(nm) == \E i \in 1..Len(layerNames) : layerNames[i] = nm
      verdict ==
        IF some("WAVEGUIDE") \/ some("GRATING") THEN
          <<"photonics_waveguide", "Detected photonic waveguide patterns", "high">>
        ELSE IF some("CANTILEVER") \/ some("MEMBRANE") THEN
          IF some("ELECTRODE")
          THEN <<"mems_cantilever", "Detected cantilever structures with electrodes", "high">>
          ELSE <<"mems_pressure_sensor", "Detected MEMS membrane structures", "high">>
        ELSE IF has("POLY") /\ has("ACTIVE") THEN
          <<"cmos_standard", "Standard CMOS layers detected (POLY, ACTIVE)",
            IF featureCount > 1000 THEN "high" ELSE "medium">>
        ELSE <<"cmos_standard", "Default CMOS process", "medium">>
  IN [suggested_process |-> verdict[1],
      reason |-> verdict[2],
      complexity |-> verdict[3],
      min_feature_size |-> estimateMinFeatureSize(lay),
      layer_count |-> Len(lay.layers),
      feature_density |->
        [num |-> featureCount,
         den |-> lay.bounding_box.max_x * lay.bounding_box.max_y]]

\* analyzeLayout (lines 109-153). feature_density is kept as the exact quotient.
analyzeLayout(lay) ==
  LET layerNames == UpperNames(lay)
      featureCount == lay.feature_count
      some(kw) == \E i \in 1..Len(layerNames) : includes(layerNames[i], kw)
      has(nm) == \E i \in 1..Len(layerNames) : layerNames[i] = nm
      verdict ==
        IF some("CANTILEVER") \/ some("MEMBRANE") THEN
          IF some("ELECTRODE")
          THEN <<"mems_cantilever", "Detected cantilever structures with electrodes", "high">>
          ELSE <<"mems_pressure_sensor", "Detected MEMS membrane structures", "high">>
        ELSE IF some("WAVEGUIDE") \/ some("GRATING") THEN
          <<"photonics_waveguide", "Detected photonic waveguide patterns", "high">>
        ELSE IF has("POLY") /\ has("ACTIVE") THEN
          <<"cmos_standard", "Standard CMOS layers detected (POLY, ACTIVE)",
            IF featureCount > 1000 THEN "high" ELSE "medium">>
        ELSE <<"cmos_standard", "Default CMOS process", "medium">>
  IN [suggested_process |-> verdict[1],
      reason |-> verdict[2],
      complexity |-> verdict[3],
      min_feature_size |-> estimateMinFeatureSize(lay),
      layer_count |-> Len(lay.layers),
      feature_density |->
        [num |-> featureCount,
         den |-> lay.bounding_box.max_x * lay.bounding_box.max_y]]

(***************************************************************************)
(* The renderers. A rendered text is the sequence of its lines (the string *)
(* split at "\n"; every line of the output ends with one).                 *)
(***************************************************************************)

\* A number in a template literal: tenths of an hour print as JavaScript
\* prints the number (2, 2.5, NaN).
HoursToString(d) ==
  IF d.kind # "number" THEN "NaN"
  ELSE IF d.tenths % 10 = 0 THEN ToString(d.tenths \div 10)
  ELSE ToString(d.tenths \div 10) \o "." \o ToString(d.tenths % 10)

\* One iteration of processFlow.steps.forEach in formatText (lines 188-212).
TextStep(step) ==
  << "Step " \o ToString(step.step) \o ": " \o toUpperCase(step.operation),
     "  Description: " \o step.description >>
  \o (IF TruthyStr(step, "material") THEN << "  Material: " \o step.material >> ELSE << >>)
  \o (IF TruthyStr(step, "method") THEN << "  Method: " \o step.method >> ELSE << >>)
  \o (IF TruthyNum(step, "thickness_nm")
      THEN << "  Thickness: " \o ToString(step.thickness_nm) \o " nm" >> ELSE << >>)
  \o (IF TruthyNum(step, "temperature_c")
      THEN << "  Temperature: " \o ToString(step.temperature_c) \o "°C" >> ELSE << >>)
  \o (IF TruthyStr(step, "layer") THEN << "  Mask Layer: " \o step.layer >> ELSE << >>)
  \o (IF TruthyStr(step, "warning") THEN << "  ⚠ WARNING: " \o step.warning >> ELSE << >>)
  \o << "" >>

RECURSIVE TextSteps(_, _)
TextSteps(steps, n) ==
  IF n = 0 THEN << >> ELSE TextSteps(steps, n - 1) \o TextStep(steps[n])

\* formatText (lines 169-215).
formatText(processFlow) ==
  << "============================================================",
     "FABRICATION PROCESS FLOW",
     "============================================================",
     "",
     "Process: " \o processFlow.name,
     "Type: " \o processFlow.process_type,
     "Technology: " \o processFlow.technology_node,
     "Application: " \o processFlow.application,
     "Layout File: " \o processFlow.layout_file,
     "Total Steps: " \o ToString(processFlow.total_steps),
     "Estimated Duration: " \o HoursToString(processFlow.estimated_duration_hours) \o " hours",
     "",
     "------------------------------------------------------------",
     "PROCESS STEPS",
     "------------------------------------------------------------",
     "" >>
  \o TextSteps(processFlow.steps, Len(processFlow.steps))

\* One iteration of processFlow.steps.forEach in formatMarkdown (lines 235-252).
\* The warning sign is written without its variation selector (U+FE0F).
MarkdownStep(step) ==
  << "### Step " \o ToString(step.step) \o ": " \o step.operation,
     "",
     step.description,
     "" >>
  \o (IF \/ TruthyStr(step, "material") \/ TruthyStr(step, "method")
         \/ TruthyNum(step, "thickness_nm") \/ TruthyNum(step, "temperature_c")
      THEN << "**Parameters:**" >>
           \o (IF TruthyStr(step, "material") THEN << "- Material: " \o step.material >> ELSE << >>)
           \o (IF TruthyStr(step, "method") THEN << "- Method: " \o step.method >> ELSE << >>)
           \o (IF TruthyNum(step, "thickness_nm")
               THEN << "- Thickness: " \o ToString(step.thickness_nm) \o " nm" >> ELSE << >>)
           \o (IF TruthyNum(step, "temperature_c")
               THEN << "- Temperature: " \o ToString(step.temperature_c) \o "°C" >> ELSE << >>)
           \o (IF TruthyStr(step, "layer") THEN << "- Mask Layer: " \o step.layer >> ELSE << >>)
           \o << "" >>
      ELSE << >>)
  \o (IF TruthyStr(step, "warning")
      THEN << "> ⚠ **Warning**: " \o step.warning, "" >> ELSE << >>)

RECURSIVE MarkdownSteps(_, _)
MarkdownSteps(steps, n) ==
  IF n = 0 THEN << >> ELSE MarkdownSteps(steps, n - 1) \o MarkdownStep(steps[n])

\* formatMarkdown (lines 220-255).
formatMarkdown(processFlow) ==
  << "# Fabrication Process Flow",
     "",
     "## Process Information",
     "",
     "- **Process**: " \o processFlow.name,
     "- **Type**: " \o processFlow.process_type,
     "- **Technology**: " \o processFlow.technology_node,
     "- **Application**: " \o processFlow.application,
     "- **Layout File**: " \o processFlow.layout_file,
     "- **Total Steps**: " \o ToString(processFlow.total_steps),
     "- **Estimated Duration**: " \o HoursToString(processFlow.estimated_duration_hours) \o " hours",
     "",
     "## Process Steps",
     "" >>
  \o MarkdownSteps(processFlow.steps, Len(processFlow.steps))

(***************************************************************************)
(* The inputs the model draws from: recipe tables, layouts, process types. *)
(***************************************************************************)

\* Sequences of length 0..n whose i-th element is drawn from At(i).
SeqsUpTo(n, At(_)) ==
  LET OfLen[k \in 0..n] ==
        IF k = 0 THEN {<< >>}
        ELSE {Append(s, x) : s \in OfLen[k - 1], x \in At(k)}
  IN UNION {OfLen[k] : k \in 0..n}

Operations == <<"lithography", "etch", "deposition", "cmp">>

\* The required properties of the i-th template of a recipe.
BaseTemplate(i) ==
  LET op == Operations[((i - 1) % Len(Operations)) + 1]
  IN [step |-> i, operation |-> op, description |-> op \o " " \o ToString(i)]

\* Layer names a template may carry: the empty string, a name layouts carry,
\* a name no layout carries, and names Object.prototype defines.
TemplateLayerNames == {"", "POLY", "VIA2", "constructor", "__proto__"}

TemplatesAt(i) ==
  {BaseTemplate(i)} \cup {Put(BaseTemplate(i), "layer", l) : l \in TemplateLayerNames}

\* The recipe of the second process type: no technology_node, no application.
CantileverRecipe ==
  [name |-> "MEMS Cantilever",
   steps |-> << [step |-> 1, operation |-> "deposition",
                 description |-> "Deposit structural nitride",
                 material |-> "Si3N4", method |-> "LPCVD", thickness_nm |-> 500,
                 temperature_c |-> 800, duration_min |-> 45],
                [step |-> 2, operation |-> "lithography",
                 description |-> "Pattern cantilever", layer |-> "CANTILEVER"] >>]

CmosRecipe(steps) ==
  [name |-> "Standard CMOS Process", technology_node |-> "180nm",
   application |-> "Digital logic", steps |-> steps]

RecipeTable(steps) ==
  [cmos_standard |-> CmosRecipe(steps), mems_cantilever |-> CantileverRecipe]

RecipeTables == {RecipeTable(st) : st \in SeqsUpTo(MaxRecipeSteps, TemplatesAt)}

\* Layer names a layout may carry in the planner's specification.
LayoutLayerNames == {"POLY", "__proto__"}

LayerAt(i, nm) ==
  [number |-> i, name |-> nm, datatype |-> 0, feature_count |-> 100 + 50 * i]

Layout(layers, fc) ==
  [filename |-> "chip.gds", layers |-> layers, feature_count |-> fc,
   bounding_box |-> BoundingBox]

LayersAt(i) == {LayerAt(i, nm) : nm \in LayoutLayerNames}

Layouts == {Layout(ls, 950) : ls \in SeqsUpTo(MaxLayers, LayersAt)}

\* Process types a caller may pass: the keys of the table, a name that is in
\* no table, and a name Object.prototype defines.
ProcessTypes == {"cmos_standard", "mems_cantilever", "nonexistent_type", "constructor"}

Formats == {"text", "json", "markdown", "yaml"}

(***************************************************************************)
(* The state machine: one process. It is either a caller of the planner    *)
(* module (pc = "library"), which holds a layout and calls the exported    *)
(* functions in any order, or a run of the CLI's 'generate' command        *)
(* (pc = "cli"), which parses its layout itself and then exits.            *)
(*   recipes     the table loaded at line 11                               *)
(*   layout      the layout object the process holds                       *)
(*   call, ret   the last operation called and what it returned or threw   *)
(*   outputFile  the output file of the CLI                                *)
(*   pc          "library", "cli", or "exited" once the command is over    *)
(***************************************************************************)
NoCall == [op |-> "none"]
NoRet == [kind |-> "none"]
NoFile == [written |-> FALSE]
NoLayout == [kind |-> "none"]

Init ==
  /\ recipes \in RecipeTables
  /\ \/ pc = "library" /\ layout \in Layouts
     \/ pc = "cli" /\ layout = NoLayout
  /\ call = NoCall
  /\ ret = NoRet
  /\ outputFile = NoFile
  /\ exitStatus = 0

\* A library call generateFlow(layout, processType).
GenerateFlow(processType) ==
  /\ pc = "library"
  /\ LET r == generateFlow(layout, recipes, processType)
     IN /\ call' = [op |-> "generateFlow", processType |-> processType]
        /\ ret' = r.ret
        /\ recipes' = r.recipes
  /\ UNCHANGED <<layout, outputFile, pc, exitStatus>>

\* A library call generateFlow(layout): processType defaults to 'cmos_standard'
\* (line 16).
GenerateFlowDefault ==
  /\ pc = "library"
  /\ LET r == generateFlow(layout, recipes, "cmos_standard")
     IN /\ call' = [op |-> "generateFlow", processType |-> "cmos_standard"]
        /\ ret' = r.ret
        /\ recipes' = r.recipes
  /\ UNCHANGED <<layout, outputFile, pc, exitStatus>>

\* A library call analyzeLayout(layout).
AnalyzeLayout ==
  /\ pc = "library"
  /\ call' = [op |-> "analyzeLayout"]
  /\ ret' = [kind |-> "analysis", analysis |-> analyzeLayout(layout)]
  /\ UNCHANGED <<recipes, layout, outputFile, pc, exitStatus>>

\* The flow a caller holds: the one generateFlow returned last.
HasFlow == ret.kind = "flow" \/ call.op \in {"formatText", "formatMarkdown"}
FlowAtHand == IF ret.kind = "flow" THEN ret.flow ELSE call.flow

\* A library call formatText(flow) on the flow at hand.
FormatText ==
  /\ pc = "library"
  /\ HasFlow
  /\ call' = [op |-> "formatText", flow |-> FlowAtHand]
  /\ ret' = [kind |-> "text", lines |-> formatText(FlowAtHand)]
  /\ UNCHANGED <<recipes, layout, outputFile, pc, exitStatus>>

\* A library call formatMarkdown(flow) on the flow at hand.
FormatMarkdown ==
  /\ pc = "library"
  /\ HasFlow
  /\ call' = [op |-> "formatMarkdown", flow |-> FlowAtHand]
  /\ ret' = [kind |-> "text", lines |-> formatMarkdown(FlowAtHand)]
  /\ UNCHANGED <<recipes, layout, outputFile, pc, exitStatus>>

\* JSON.stringify(processFlow, null, 2) (line 47 of the CLI): the flow's own
\* properties, with NaN written as null.
JsonStringify(processFlow) ==
  [processFlow EXCEPT !.estimated_duration_hours =
     IF @.kind = "number" THEN @ ELSE [kind |-> "null"]]

\* The output the 'generate' command writes (lines 44-54 of the CLI).
FormatOutput(processFlow, format) ==
  CASE format = "json" -> [format |-> "json", value |-> JsonStringify(processFlow)]
    [] format = "markdown" -> [format |-> "markdown", lines |-> formatMarkdown(processFlow)]
    [] OTHER -> [format |-> "text", lines |-> formatText(processFlow)]

\* The action of the 'generate' command (lines 29-71 of the CLI), run to its
\* end: the try block, or the catch block and process.exit(1).
CliGenerate(gdsFile, exists, processType, format) ==
  /\ pc = "cli"
  /\ call' = [op |-> "generate", gdsFile |-> gdsFile, exists |-> exists,
              processType |-> processType, format |-> format]
  /\ pc' = "exited"
  /\ LET parsed == parseGDS(gdsFile, exists)
         r == generateFlow(parsed.layout, recipes, processType)
     IN IF parsed.kind = "error" THEN
          /\ ret' = parsed
          /\ exitStatus' = 1
          /\ UNCHANGED <<recipes, layout, outputFile>>
        ELSE IF r.ret.kind = "error" THEN
          /\ ret' = r.ret
          /\ exitStatus' = 1
          /\ layout' = parsed.layout
          /\ recipes' = r.recipes
          /\ UNCHANGED outputFile
        ELSE
          /\ ret' = [kind |-> "done"]
          /\ exitStatus' = 0
          /\ layout' = parsed.layout
          /\ recipes' = r.recipes
          /\ outputFile' = [written |-> TRUE, path |-> "process_flow.txt",
                            content |-> FormatOutput(r.ret.flow, format)]

Next ==
  \/ \E p \in ProcessTypes : GenerateFlow(p)
  \/ GenerateFlowDefault
  \/ AnalyzeLayout
  \/ FormatText
  \/ FormatMarkdown
  \/ \E e \in BOOLEAN, p \in ProcessTypes, f \in Formats :
       CliGenerate("chip.gds", e, p, f)

Spec == Init /\ [][Next]_vars

(***************************************************************************)
(* analyzeLayout on its own: layouts whose layer names exercise the rules. *)
(***************************************************************************)
AnalyzeLayerNames ==
  {"cantilever", "Membrane", "ELECTRODE", "waveguide", "GRATING", "poly",
   "Active", "POLY1"}

AnalyzeLayersAt(i) == {LayerAt(i, nm) : nm \in AnalyzeLayerNames}

AnalyzeFeatureCounts == {0, 1000, 1001}

AnalyzeLayouts ==
  {Layout(ls, fc) : ls \in SeqsUpTo(MaxAnalyzeLayers, AnalyzeLayersAt),
                    fc \in AnalyzeFeatureCounts}

FixedRecipes == RecipeTable(<< BaseTemplate(1) >>)

InitAnalyze ==
  /\ recipes = FixedRecipes
  /\ layout \in AnalyzeLayouts
  /\ pc = "library"
  /\ call = NoCall
  /\ ret = NoRet
  /\ outputFile = NoFile
  /\ exitStatus = 0

NextAnalyze == AnalyzeLayout

SpecAnalyze == InitAnalyze /\ [][NextAnalyze]_vars

(***************************************************************************)
(* The renderers on their own: the process holds the flow generateFlow     *)
(* returned for a recipe whose templates carry every combination of the    *)
(* optional properties.                                                    *)
(***************************************************************************)
OptStr(obj, key, v) == IF v = "(absent)" THEN obj ELSE Put(obj, key, v)
OptNum(obj, key, v) == IF v = -1 THEN obj ELSE Put(obj, key, v)

FormatTemplatesAt(i) ==
  {OptStr(OptNum(OptNum(OptStr(OptStr(BaseTemplate(i),
      "material", ma), "method", me), "thickness_nm", th), "temperature_c", te),
      "layer", la)
   : ma \in {"(absent)", "", "Si3N4"}, me \in {"(absent)", "LPCVD"},
     th \in {-1, 100}, te \in {-1, 900}, la \in {"(absent)", "POLY", "VIA2"}}

MockLayout == parseGDS("chip.gds", TRUE).layout

InitFormat ==
  /\ recipes \in {RecipeTable(st) : st \in SeqsUpTo(MaxFlowSteps, FormatTemplatesAt)}
  /\ layout = MockLayout
  /\ pc = "library"
  /\ call = [op |-> "generateFlow", processType |-> "cmos_standard"]
  /\ ret = generateFlow(layout, recipes, "cmos_standard").ret
  /\ outputFile = NoFile
  /\ exitStatus = 0

NextFormat == FormatText \/ FormatMarkdown

SpecFormat == InitFormat /\ [][NextFormat]_vars

(***************************************************************************)
(* calculateDuration on its own, called on sequences of mapped steps.      *)
(***************************************************************************)
DurationStepsAt(i) ==
  {OptNum([step |-> i, operation |-> op, description |-> "d",
           status |-> "layer_independent"], "duration_min", du)
   : op \in {"etch", "cmp", "strip", "anneal", "constructor"},
     du \in {-1, 0, 3, 6, 45}}

DurationStepSeqs == SeqsUpTo(MaxDurationSteps, DurationStepsAt)

InitDuration ==
  /\ recipes = FixedRecipes
  /\ layout = MockLayout
  /\ pc = "library"
  /\ call = NoCall
  /\ ret = NoRet
  /\ outputFile = NoFile
  /\ exitStatus = 0

\* A call calculateDuration(steps).
CalculateDuration(steps) ==
  /\ pc = "library"
  /\ call' = [op |-> "calculateDuration", steps |-> steps]
  /\ ret' = [kind |-> "duration", duration |-> calculateDuration(steps)]
  /\ UNCHANGED <<recipes, layout, outputFile, pc, exitStatus>>

NextDuration == \E st \in DurationStepSeqs : CalculateDuration(st)

SpecDuration == InitDuration /\ [][NextDuration]_vars

(***************************************************************************)
(* Properties of the planner (specification Spec).                         *)
(***************************************************************************)

\* The last call was generateFlow and it returned a flow.
ReturnedFlow == call.op = "generateFlow" /\ ret.kind = "flow"

\* The templates the last generateFlow call mapped.
Templates == recipes[call.processType].steps

\* Some layer of the layout carries this name.
LayoutHasLayer(nm) == \E j \in 1..Len(layout.layers) : layout.layers[j].name = nm

\* C1: generateFlow with a process type that is a key of the recipe table
\* returns a flow whose total_steps and number of steps equal the number of
\* templates of the recipe, the i-th step carrying the step number, operation
\* and description of the i-th template.
C1_StepsPreserved ==
  (call.op = "generateFlow" /\ call.processType \in DOMAIN recipes) =>
    /\ ret.kind = "flow"
    /\ ret.flow.total_steps = Len(Templates)
    /\ Len(ret.flow.steps) = Len(Templates)
    /\ \A i \in 1..Len(Templates) :
         /\ i \in DOMAIN ret.flow.steps
         /\ ret.flow.steps[i].step = Templates[i].step
         /\ ret.flow.steps[i].operation = Templates[i].operation
         /\ ret.flow.steps[i].description = Templates[i].description

\* A flow of two steps, one of them naming a layer the layout lacks, mapped
\* against a layout that has layers.
C1_Witness ==
  /\ ReturnedFlow
  /\ Len(ret.flow.steps) >= 2
  /\ Len(layout.layers) >= 1
  /\ \E i \in 1..Len(ret.flow.steps) : ret.flow.steps[i].status = "layer_missing"

\* C2: every mapped step has one of the three statuses; it is matched iff the
\* template names a layer and some layer of the layout has that name,
\* layer_missing iff the template names a layer and no layer of the layout
\* has that name, layer_independent iff the template names no layer.
C2_StatusDetermined ==
  ReturnedFlow =>
    \A i \in 1..Len(ret.flow.steps) :
      LET t == Templates[i]
          m == ret.flow.steps[i]
          named == "layer" \in DOMAIN t
          present == named /\ LayoutHasLayer(t.layer)
      IN /\ m.status \in {"matched", "layer_missing", "layer_independent"}
         /\ m.status = "matched" <=> present
         /\ m.status = "layer_missing" <=> (named /\ ~present)
         /\ m.status = "layer_independent" <=> ~named

\* C4: generateFlow with a process type that is not a key of the recipe table
\* fails with 'Unknown process type: <id>', generateFlow raises no other
\* failure, and the 'generate' command with such a type writes no output file
\* and exits with a non-zero status.
C4_UnknownProcessType ==
  /\ (call.op = "generateFlow" /\ call.processType \notin DOMAIN recipes) =>
       /\ ret.kind = "error"
       /\ ret.error.message = "Unknown process type: " \o call.processType
  /\ (call.op = "generateFlow" /\ ret.kind = "error") =>
       /\ call.processType \notin DOMAIN recipes
       /\ ret.error.type = "Error"
       /\ ret.error.message = "Unknown process type: " \o call.processType
  /\ (call.op = "generate" /\ call.processType \notin DOMAIN recipes) =>
       /\ pc = "exited"
       /\ ~outputFile.written
       /\ exitStatus # 0

\* C6: a template naming a layer the layout lacks does not make generateFlow
\* fail; its mapped step has status layer_missing, the warning 'Layer <name>
\* not found in layout' and neither layout_layer nor feature_count; and a
\* mapped step carries a warning only when its status is layer_missing.
C6_MissingLayerWarns ==
  (call.op = "generateFlow" /\ call.processType \in DOMAIN recipes) =>
    /\ ret.kind = "flow"
    /\ \A i \in 1..Len(ret.flow.steps) :
         LET t == Templates[i]
             m == ret.flow.steps[i]
         IN /\ (TruthyStr(t, "layer") /\ ~LayoutHasLayer(t.layer)) =>
                 /\ m.status = "layer_missing"
                 /\ "warning" \in DOMAIN m
                 /\ m.warning = "Layer " \o t.layer \o " not found in layout"
                 /\ "layout_layer" \notin DOMAIN m
                 /\ "feature_count" \notin DOMAIN m
            /\ "warning" \in DOMAIN m => m.status = "layer_missing"

\* C9: a matched step carries the number and feature_count of the last layer
\* of the layout whose name is the template's layer, and layers_used is the
\* length of the layout's layer sequence.
C9_MatchedLayerIsLast ==
  ReturnedFlow =>
    /\ ret.flow.layers_used = Len(layout.layers)
    /\ \A i \in 1..Len(ret.flow.steps) :
         LET t == Templates[i]
             m == ret.flow.steps[i]
         IN m.status = "matched" =>
              \E j \in 1..Len(layout.layers) :
                /\ layout.layers[j].name = t.layer
                /\ \A k \in (j + 1)..Len(layout.layers) : layout.layers[k].name # t.layer
                /\ "layout_layer" \in DOMAIN m
                /\ m.layout_layer = layout.layers[j].number
                /\ "feature_count" \in DOMAIN m
                /\ m.feature_count = layout.layers[j].feature_count

\* C10: a generateFlow or analyzeLayout call, returning or throwing, leaves
\* the recipe table and the layout as they were, so that the same call made
\* again returns what it returned.
C10_Frame ==
  [][call'.op \in {"generateFlow", "analyzeLayout"} =>
       /\ recipes' = recipes
       /\ layout' = layout
       /\ call'.op = "generateFlow" =>
            generateFlow(layout', recipes', call'.processType).ret = ret'
       /\ call'.op = "analyzeLayout" => analyzeLayout(layout') = ret'.analysis]_vars

\* generateFlow has returned a flow with a matched and annotated step, and the
\* template it was mapped from carries none of the annotations.
C10_Witness ==
  /\ ReturnedFlow
  /\ \E i \in 1..Len(ret.flow.steps) :
       /\ ret.flow.steps[i].status = "matched"
       /\ "layout_layer" \in DOMAIN ret.flow.steps[i]
       /\ DOMAIN Templates[i] \cap {"status", "warning", "layout_layer", "feature_count"} = {}

(***************************************************************************)
(* Properties of analyzeLayout (specification SpecAnalyze).                *)
(***************************************************************************)

\* The uppercased names of the layout's layers.
UpperNameSet == {toUpperCase(layout.layers[i].name) : i \in 1..Len(layout.layers)}

\* Some uppercased name contains one of these keywords.
SomeNameContains(keywords) ==
  \E n \in UpperNameSet : \E kw \in keywords : includes(n, kw)

MemsRule == SomeNameContains({"CANTILEVER", "MEMBRANE"})
PhotonicsRule == SomeNameContains({"WAVEGUIDE", "GRATING"})
CmosRule == "POLY" \in UpperNameSet /\ "ACTIVE" \in UpperNameSet

\* C5: analyzeLayout applies its rules to the uppercased layer names in
\* priority order, first match winning: the MEMS rule (mems_cantilever with an
\* ELECTRODE name, else mems_pressure_sensor; high), then the photonics rule
\* (photonics_waveguide; high), then exact POLY and ACTIVE (cmos_standard;
\* high iff feature_count > 1000, else medium), else cmos_standard and
\* medium. A layout matching the MEMS rule never yields photonics_waveguide
\* or cmos_standard, and complexity is never low.
C5_RulePriority ==
  call.op = "analyzeLayout" =>
    LET a == ret.analysis
    IN /\ MemsRule =>
            /\ a.suggested_process =
                 IF SomeNameContains({"ELECTRODE"})
                 THEN "mems_cantilever" ELSE "mems_pressure_sensor"
            /\ a.complexity = "high"
            /\ a.suggested_process \notin {"photonics_waveguide", "cmos_standard"}
       /\ (~MemsRule /\ PhotonicsRule) =>
            /\ a.suggested_process = "photonics_waveguide"
            /\ a.complexity = "high"
       /\ (~MemsRule /\ ~PhotonicsRule /\ CmosRule) =>
            /\ a.suggested_process = "cmos_standard"
            /\ a.complexity = IF layout.feature_count > 1000 THEN "high" ELSE "medium"
       /\ (~MemsRule /\ ~PhotonicsRule /\ ~CmosRule) =>
            /\ a.suggested_process = "cmos_standard"
            /\ a.complexity = "medium"
       /\ a.complexity \in {"medium", "high"}

\* analyzeLayout has run on a layout that matches the MEMS rule and the
\* photonics rule at once and also has a POLY layer, and the MEMS rule won.
C5_Witness ==
  /\ call.op = "analyzeLayout"
  /\ MemsRule /\ PhotonicsRule
  /\ \E i \in 1..Len(layout.layers) : toUpperCase(layout.layers[i].name) = "POLY"
  /\ ret.analysis.suggested_process = "mems_pressure_sensor"

(***************************************************************************)
(* Properties of calculateDuration (specification SpecDuration).           *)
(***************************************************************************)

\* The default duration of an operation, in minutes, as the claims state it.
StatedDefaultMinutes(operation) ==
  CASE operation = "lithography" -> 120
    [] operation = "etch" -> 60
    [] operation = "deposition" -> 180
    [] operation = "implantation" -> 120
    [] operation = "thermal_oxidation" -> 180
    [] operation = "cmp" -> 90
    [] operation = "metallization" -> 120
    [] operation = "strip" -> 30
    [] operation = "wet_etch" -> 30
    [] OTHER -> 60

\* The contribution of a step, in minutes, as the claims state it:
\* duration_min whenever it is present, else the default of the operation.
StatedContribution(step) ==
  IF "duration_min" \in DOMAIN step THEN step.duration_min
  ELSE StatedDefaultMinutes(step.operation)

RECURSIVE StatedTotal(_, _)
StatedTotal(steps, n) ==
  IF n = 0 THEN 0 ELSE StatedTotal(steps, n - 1) + StatedContribution(steps[n])

\* a < b on JavaScript numbers: false when either is NaN.
Less(a, b) == a.kind = "number" /\ b.kind = "number" /\ a.tenths < b.tenths

\* C3: the estimated duration is the sum of the steps' contributions rounded
\* to one decimal, a step contributing duration_min / 60 hours whenever
\* duration_min is present (0 included), else the default of its operation,
\* and 1 hour when the operation has no default.
C3_DurationSum ==
  call.op = "calculateDuration" =>
    /\ ret.duration.kind = "number"
    /\ ret.duration.tenths = (StatedTotal(call.steps, Len(call.steps)) + 3) \div 6

\* C8: appending a step whose contribution is positive never makes the
\* estimated duration smaller, and makes it strictly larger when the
\* contribution is at least 0.1 hour (6 minutes).
C8_Monotone ==
  [][(/\ call.op = "calculateDuration"
      /\ call'.op = "calculateDuration"
      /\ Len(call'.steps) = Len(call.steps) + 1
      /\ SubSeq(call'.steps, 1, Len(call.steps)) = call.steps
      /\ StatedContribution(call'.steps[Len(call'.steps)]) > 0)
     => /\ ~Less(ret'.duration, ret.duration)
        /\ StatedContribution(call'.steps[Len(call'.steps)]) >= 6
             => Less(ret.duration, ret'.duration)]_vars

(***************************************************************************)
(* Properties of the renderers (specification SpecFormat).                 *)
(***************************************************************************)

\* The lines that open a step: "Step N: ..." in the text, "### Step N: ..." in
\* the Markdown.
StepPrefix == IF call.op = "formatText" THEN "Step " ELSE "### Step "
StepStarts == {i \in 1..Len(ret.lines) : StartsWith(ret.lines[i], StepPrefix)}
KthStart(k) == CHOOSE i \in StepStarts : Cardinality({j \in StepStarts : j < i}) = k - 1

\* The lines rendered for the k-th step: from its opening line to the next.
StepBlock(k) ==
  {ret.lines[i] : i \in KthStart(k)..
     (IF k < Cardinality(StepStarts) THEN KthStart(k + 1) - 1 ELSE Len(ret.lines))}

BlockShows(k, text) == \E l \in StepBlock(k) : includes(l, text)

\* An optional string property is rendered in the k-th block iff it is
\* non-empty on the step, and then with its value.
StrFieldRendered(k, step, key, label) ==
  /\ BlockShows(k, label) <=> TruthyStr(step, key)
  /\ TruthyStr(step, key) => BlockShows(k, label \o step[key])

\* The same for an optional numeric property (present means non-empty).
NumFieldRendered(k, step, key, label) ==
  /\ BlockShows(k, label) <=> key \in DOMAIN step
  /\ key \in DOMAIN step => BlockShows(k, label \o ToString(step[key]))

\* C7: formatText and formatMarkdown render the steps in flow order, and
\* render each of material, method, thickness_nm, temperature_c, layer and
\* warning of a step iff it is non-empty on the step.
C7_FieldsRendered ==
  call.op \in {"formatText", "formatMarkdown"} =>
    /\ Cardinality(StepStarts) = Len(call.flow.steps)
    /\ \A k \in 1..Len(call.flow.steps) :
         LET step == call.flow.steps[k]
         IN /\ StartsWith(ret.lines[KthStart(k)],
                          StepPrefix \o ToString(step.step) \o ": ")
            /\ StrFieldRendered(k, step, "material", "Material: ")
            /\ StrFieldRendered(k, step, "method", "Method: ")
            /\ NumFieldRendered(k, step, "thickness_nm", "Thickness: ")
            /\ NumFieldRendered(k, step, "temperature_c", "Temperature: ")
            /\ StrFieldRendered(k, step, "layer", "Mask Layer: ")
            /\ StrFieldRendered(k, step, "warning",
                 IF call.op = "formatText" THEN "WARNING: " ELSE "**Warning**: ")

====
